---- MODULE Spec2Model ----
(***************************************************************************)
(* Chat-completion gateway: one request travelling through                 *)
(* handleChatCompletions -> validateAndProcessRequest -> failoverFunction  *)
(* -> processResponse -> handleStreamingResponse/handleNonStreamingResponse*)
(*                                                                         *)
(* An optional field of a JavaScript object is a set with at most one      *)
(* element: {} is `undefined`, {v} is the value v.                         *)
(***************************************************************************)
EXTENDS Integers, Sequences, FiniteSets, TLC

VARIABLES
    apiKeys,        \* process.env: provider names that have a credential
    assumeAll,      \* process.env.ASSUME_ALL_MODELS_SUPPORT_IMAGES === 'true'
    pc,             \* where the request's handler is suspended
    body,           \* req.body
    apiKeyInfo,     \* req.apiKeyInfo, {} when the caller identity is absent
    upstream,       \* what each provider serving the model answers if called
    access,         \* outcome of checkPremiumAccess: "none", "allow", "deny"
    image,          \* outcome of the image check: "none", "allow", "deny"
    failover,       \* failoverFunction: "idle", "running", "resolved", "failed"
    providers,      \* failoverFunction's candidate list (provider names)
    selected,       \* the provider failoverFunction returned, {} before
    calls,          \* outbound axios calls issued, in order
    headersSent,    \* res.headersSent
    responses,      \* res.status(s).json(b) calls made on res, in order
    frames,         \* res.write(frame) calls made on res, in order
    ended,          \* res.writableEnded
    chunksRead,     \* chunks consumed from the upstream stream
    attemptConfig,  \* the config local to failoverFunction's loop, {} outside
    closed,         \* the caller's connection has closed ('close' on res)
    wire,           \* response.data: bytes sent, bytes still to send, whether it errored
    buffer,         \* StreamProcessor.buffer, a string (sequence of characters)
    data,           \* the data line handed to processJsonData, {} outside
    parsed,         \* the object JSON.parse returned for it, {} outside
    response,       \* the upstream's HTTP response to the call, {} when none
    sanitizedBody,  \* sanitizedBody of handleChatCompletions, {} before
    configFiles,    \* version on disk of models/config.json and of
                    \* providers/chat-completions.json
    observed        \* the reads of those files made for the request, in order

\* the state of one StreamProcessor working on the bytes of a stream
processorVars == <<wire, buffer, data, parsed>>

\* the files the request's lookups read, and what they read
configVars == <<configFiles, observed>>

vars == <<apiKeys, assumeAll, pc, body, apiKeyInfo, upstream, access, image,
          failover, providers, selected, calls, headersSent, responses,
          frames, ended, chunksRead, attemptConfig, closed, wire, buffer,
          data, parsed, response, sanitizedBody, configFiles, observed>>

(***************************************************************************)
(* Bounds of the model.                                                    *)
(***************************************************************************)
MaxMessages == 2
MaxChunks == 2
MaxLines == 2
MaxRewrites == 2
MaxText == 2

(***************************************************************************)
(* Configuration tables: models/config.json and                            *)
(* providers/chat-completions.json.                                        *)
(***************************************************************************)
ModelsConfig ==
    << [id |-> "gpt-4",                premium |-> FALSE],
       [id |-> "claude-3-opus",        premium |-> TRUE],
       [id |-> "gpt-4-vision-preview", premium |-> TRUE],
       [id |-> "gemini-pro-vision",    premium |-> FALSE],
       [id |-> "orphan-model",         premium |-> FALSE] >>

ProvidersConfig ==
    << [name |-> "A", endpoint |-> "https://a.example/v1/chat/completions",
        models |-> [m \in {"gpt-4", "gemini-pro-vision"} |->
                      IF m = "gpt-4" THEN "a/gpt-4" ELSE "a/gemini-vision"]],
       [name |-> "B", endpoint |-> "https://b.example/v1/chat/completions",
        models |-> [m \in {"gpt-4", "claude-3-opus"} |->
                      IF m = "gpt-4" THEN "b/gpt-4" ELSE "b/opus"]],
       [name |-> "C", endpoint |-> "https://c.example/v1/chat/completions",
        models |-> [m \in {"gpt-4", "claude-3-opus", "gpt-4-vision-preview"} |->
                      IF m = "gpt-4" THEN "c/gpt-4"
                      ELSE IF m = "claude-3-opus" THEN "c/opus" ELSE "c/gpt-4v"]] >>

ProviderNames == {ProvidersConfig[i].name : i \in DOMAIN ProvidersConfig}

ProviderNamed(n) ==
    ProvidersConfig[CHOOSE i \in DOMAIN ProvidersConfig : ProvidersConfig[i].name = n]

\* Model ids a caller may send: the registry's, plus one nobody configured.
ModelIds == {ModelsConfig[i].id : i \in DOMAIN ModelsConfig} \cup {"ghost-model"}

(***************************************************************************)
(* Requests a caller may send.                                             *)
(***************************************************************************)
\* JSON null
Null == "<null>"

\* A string is a sequence of pieces of text.  The pieces, as an HTML parser
\* reads them: a letter, a blank, an element that user text may hold, an
\* element it may not, and a script element.
TextTokens == {"a", " ", "<b>a</b>", "<u>a</u>", "<script>a</script>"}

\* A message content: a string, null, or an array of typed parts.
StringContent == [kind |-> "string", parts |-> <<>>, text |-> <<"a">>]
NullContent   == [kind |-> "null",   parts |-> <<>>, text |-> <<>>]
TextParts     == [kind |-> "array",  parts |-> <<"text">>, text |-> <<>>]
ImageParts    == [kind |-> "array",  parts |-> <<"text", "image_url">>, text |-> <<>>]
ContentValues == {StringContent, TextParts, ImageParts}

\* a message's function_call: null, or an object with a name and arguments
NullFunctionCall == [kind |-> "null", name |-> <<>>, arguments |-> <<>>]

\* a message of the user with neither `name` nor `function_call`
UserMessage(c) ==
    [role |-> "user", content |-> c, name |-> {}, function_call |-> {}]

MessageValues == {UserMessage(c) : c \in ContentValues}

SeqsUpTo(S, n) == UNION {[1..k -> S] : k \in 0..n}

\* temperature, in whole units: -1 and 3 lie outside [0,2], 0 and 2 on its edge
TemperatureValues == {-1, 0, 2, 3}

Optional(S) == {{}} \cup {{v} : v \in S}

\* `functions` and `tools` are arrays (possibly empty) of definitions;
\* `function_call` and `tool_choice` are 'auto', 'none' or an object naming a
\* function
FunctionDefinition ==
    [name |-> <<"a">>, description |-> {}, parameters |-> "{}"]
ToolDefinition ==
    [type |-> "function", function |-> FunctionDefinition]
FunctionsValues    == {<<>>, <<FunctionDefinition>>}
ToolsValues        == {<<>>, <<ToolDefinition>>}
FunctionCallValues == {"auto", "none", "named"}
ToolChoiceValues   == {"auto", "none", "named"}

\* requests that use neither function calling nor tools
Bodies ==
    [model             : Optional(ModelIds),
     messages          : Optional(SeqsUpTo(MessageValues, MaxMessages)),
     temperature       : Optional(TemperatureValues),
     top_p             : {{}},
     n                 : {{}},
     stop              : {{}},
     max_tokens        : {{}},
     presence_penalty  : {{}},
     frequency_penalty : {{}},
     logit_bias        : {{}},
     user              : {{}},
     stream            : Optional(BOOLEAN),
     functions         : {{}},
     function_call     : {{}},
     tools             : {{}},
     tool_choice       : {{}}]

\* requests that between them take every path through the orchestrator
SampleBodies ==
    [model             : Optional({"gpt-4", "claude-3-opus", "orphan-model", "ghost-model"}),
     messages          : {{<<UserMessage(StringContent)>>},
                          {<<UserMessage(ImageParts)>>}},
     temperature       : {{}},
     top_p             : {{}},
     n                 : {{}},
     stop              : {{}},
     max_tokens        : {{}},
     presence_penalty  : {{}},
     frequency_penalty : {{}},
     logit_bias        : {{}},
     user              : {{}},
     stream            : {{FALSE}, {TRUE}},
     functions         : {{}},
     function_call     : {{}},
     tools             : {{}},
     tool_choice       : {{}}]

\* requests for one routable model that may use function calling and tools
ToolBodies ==
    [model             : {{"gpt-4"}},
     messages          : {{<<UserMessage(StringContent)>>}},
     temperature       : {{}},
     top_p             : {{}},
     n                 : {{}},
     stop              : {{}},
     max_tokens        : {{}},
     presence_penalty  : {{}},
     frequency_penalty : {{}},
     logit_bias        : {{}},
     user              : {{}},
     stream            : Optional(BOOLEAN),
     functions         : Optional(FunctionsValues),
     function_call     : Optional(FunctionCallValues),
     tools             : Optional(ToolsValues),
     tool_choice       : Optional(ToolChoiceValues)]

\* req.body before a request arrives
EmptyBody ==
    [model |-> {}, messages |-> {}, temperature |-> {}, top_p |-> {}, n |-> {},
     stop |-> {}, max_tokens |-> {}, presence_penalty |-> {},
     frequency_penalty |-> {}, logit_bias |-> {}, user |-> {}, stream |-> {},
     functions |-> {}, function_call |-> {}, tools |-> {}, tool_choice |-> {}]

\* strings of up to MaxText pieces
Texts == SeqsUpTo(TextTokens, MaxText)

\* messages with every kind of content a string or null can be, with and
\* without `name` and `function_call`
RichMessages ==
    [role          : {"user"},
     content       : {[kind |-> "string", parts |-> <<>>, text |-> t] : t \in Texts}
                         \cup {NullContent},
     name          : Optional({<<"a">>, <<" ">>}),
     function_call : Optional({NullFunctionCall,
                               [kind |-> "object", name |-> <<"a">>,
                                arguments |-> <<" ", "a">>]})]

RichFunctions ==
    [name        : {<<"a">>, <<"<u>a</u>">>},
     description : Optional({<<>>, <<"a", " ">>}),
     parameters  : {"{}"}]

\* sampling parameters within the ranges of the schema, each given or not
RichParameters ==
    [temperature       : Optional({2}),
     top_p             : Optional({1}),
     n                 : Optional({2}),
     stop              : Optional({"END"}),
     max_tokens        : Optional({16}),
     presence_penalty  : Optional({-2}),
     frequency_penalty : Optional({2}),
     logit_bias        : Optional({"{}"})]

RichBase ==
    [EmptyBody EXCEPT !.model = {"gemini-pro-vision"},
                      !.messages = {<<UserMessage(StringContent)>>},
                      !.stream = {FALSE}]

\* valid requests for one routable model that differ from RichBase in their
\* messages, in their sampling parameters, in `user`, or in their functions
\* or tools
RichBodies ==
         {[RichBase EXCEPT !.messages = {<<m>>}] : m \in RichMessages}
    \cup {[RichBase EXCEPT !.messages = {<<UserMessage(NullContent), m>>}] :
             m \in {UserMessage(c) : c \in ContentValues}}
    \cup {[RichBase EXCEPT !.temperature = p.temperature,
                           !.top_p = p.top_p,
                           !.n = p.n,
                           !.stop = p.stop,
                           !.max_tokens = p.max_tokens,
                           !.presence_penalty = p.presence_penalty,
                           !.frequency_penalty = p.frequency_penalty,
                           !.logit_bias = p.logit_bias] : p \in RichParameters}
    \cup {[RichBase EXCEPT !.user = {t}] : t \in Texts}
    \cup {[RichBase EXCEPT !.functions = {<<f>>}] : f \in RichFunctions}
    \cup {[RichBase EXCEPT !.tools = {<<[type |-> "function", function |-> f], ToolDefinition>>}] :
             f \in RichFunctions}

ApiKeyInfos == Optional({[premium |-> FALSE], [premium |-> TRUE]})

The(s) == CHOOSE v \in s : TRUE

(***************************************************************************)
(* chatCompletionSchema.parse: the issues zod reports, as `path: message`. *)
(* Every key of the object is checked, so all issues are collected.        *)
(***************************************************************************)
\* the issues of the z.object({...}) itself
objectIssues(b) ==
       (IF b.model = {} THEN {"model: Required"} ELSE {})
  \cup (IF b.messages = {} THEN {"messages: Required"}
        ELSE IF Len(The(b.messages)) < 1
             THEN {"messages: At least one message is required"} ELSE {})
  \cup (IF b.temperature # {} /\ The(b.temperature) < 0
        THEN {"temperature: Number must be greater than or equal to 0"} ELSE {})
  \cup (IF b.temperature # {} /\ The(b.temperature) > 2
        THEN {"temperature: Number must be less than or equal to 2"} ELSE {})
  \cup (IF b.top_p # {} /\ The(b.top_p) < 0
        THEN {"top_p: Number must be greater than or equal to 0"} ELSE {})
  \cup (IF b.top_p # {} /\ The(b.top_p) > 1
        THEN {"top_p: Number must be less than or equal to 1"} ELSE {})
  \cup (IF b.n # {} /\ The(b.n) <= 0
        THEN {"n: Number must be greater than 0"} ELSE {})
  \cup (IF b.max_tokens # {} /\ The(b.max_tokens) <= 0
        THEN {"max_tokens: Number must be greater than 0"} ELSE {})
  \cup (IF b.presence_penalty # {} /\ The(b.presence_penalty) < -2
        THEN {"presence_penalty: Number must be greater than or equal to -2"} ELSE {})
  \cup (IF b.presence_penalty # {} /\ The(b.presence_penalty) > 2
        THEN {"presence_penalty: Number must be less than or equal to 2"} ELSE {})
  \cup (IF b.frequency_penalty # {} /\ The(b.frequency_penalty) < -2
        THEN {"frequency_penalty: Number must be greater than or equal to -2"} ELSE {})
  \cup (IF b.frequency_penalty # {} /\ The(b.frequency_penalty) > 2
        THEN {"frequency_penalty: Number must be less than or equal to 2"} ELSE {})

\* JavaScript truthiness of an optional array and of an optional
\* string-or-object: every array, the empty one included, every non-empty
\* string and every object is truthy; undefined is not
\* (a truthiness under which the empty array counts as false)
ArrayTruthy_EmptyIsFalsy(a) == a # {} /\ The(a) # <<>>

ArrayTruthy(a) == a # {}

ChoiceTruthy(c) == c # {}

FunctionsAndTools == "functions.tools: You can provide either 'functions' or 'tools', but not both."

FunctionCallAndToolChoice == "function_call.tool_choice: You can use either 'function_call' or 'tool_choice', but not both."

\* the two .refine(...) calls; a refinement runs unless the object parse
\* aborted on a key of the wrong type (here: a required key that is missing)
refineIssues(b) ==
    IF b.model = {} \/ b.messages = {} THEN {}
    ELSE (IF ArrayTruthy(b.functions) /\ ArrayTruthy(b.tools)
          THEN {FunctionsAndTools} ELSE {})
    \cup (IF ChoiceTruthy(b.function_call) /\ ChoiceTruthy(b.tool_choice)
          THEN {FunctionCallAndToolChoice} ELSE {})

chatCompletionSchemaIssues(b) == objectIssues(b) \cup refineIssues(b)

\* what chatCompletionSchema.parse returns for a body without issues: z.object
\* strips the keys the schema does not declare (`stop`, `logit_bias`)
chatCompletionSchemaParse(b) == [b EXCEPT !.stop = {}, !.logit_bias = {}]

(***************************************************************************)
(* getModelInfo: config.models.find(model => model.id === modelId);        *)
(* {} when it throws.                                                      *)
(***************************************************************************)
getModelInfo(modelId) ==
    LET hits == {i \in DOMAIN ModelsConfig : ModelsConfig[i].id = modelId}
    IN  IF hits = {} THEN {}
        ELSE {ModelsConfig[CHOOSE i \in hits : \A j \in hits : i <= j]}

(***************************************************************************)
(* checkPremiumAccess: TRUE when it returns, FALSE when it throws          *)
(* 'Premium access required for this model'.                               *)
(***************************************************************************)
checkPremiumAccess_IgnoresAbsentCaller(modelInfo, keyInfo) ==
    ~(modelInfo.premium /\ keyInfo # {} /\ ~The(keyInfo).premium)

checkPremiumAccess(modelInfo, keyInfo) ==
    LET isPremiumModel == modelInfo.premium
        hasValidApiKey == keyInfo # {} /\ The(keyInfo).premium
    IN  ~(isPremiumModel /\ ~hasValidApiKey)

(***************************************************************************)
(* modelSupportsImages and the hasImageContent test of                     *)
(* validateAndProcessRequest.                                              *)
(***************************************************************************)
visionModels == {"gpt-4-vision-preview", "gemini-pro-vision", "gpt-4o-2024-08-06"}

modelSupportsImages(model, assumeAllModelsSupport) ==
    IF assumeAllModelsSupport THEN TRUE ELSE model \in visionModels

hasImageContent_AnyArray(messages) ==
    \E i \in DOMAIN messages : messages[i].content.kind = "array"

hasImageContent(messages) ==
    \E i \in DOMAIN messages :
        /\ messages[i].content.kind = "array"
        /\ \E k \in DOMAIN messages[i].content.parts :
               messages[i].content.parts[k] = "image_url"

(***************************************************************************)
(* Provider resolution.  A ProviderConfig is {provider, apiKey}; a lookup  *)
(* that throws yields {}.                                                  *)
(***************************************************************************)
EnvValue(name) ==
    CASE name = "A" -> "sk-a" [] name = "B" -> "sk-b" [] OTHER -> "sk-c"

Serves(i, model) == model \in DOMAIN ProvidersConfig[i].models

Serving(model) ==
    {ProvidersConfig[i].name : i \in {j \in DOMAIN ProvidersConfig : Serves(j, model)}}

\* config.providers.find(p => p.models[request.model]), then process.env[name]
getProviderAndApiKey(model, keys) ==
    LET hits == {i \in DOMAIN ProvidersConfig : Serves(i, model)}
    IN  IF hits = {} THEN {}
        ELSE LET provider == ProvidersConfig[CHOOSE i \in hits : \A j \in hits : i <= j]
             IN  IF provider.name \notin keys THEN {}
                 ELSE {[provider |-> provider.name, apiKey |-> EnvValue(provider.name)]}

\* (a filter that does not leave the current provider out)
RECURSIVE FilterProviders_KeepsCurrent(_, _, _)
FilterProviders_KeepsCurrent(i, currentProvider, model) ==
    IF i > Len(ProvidersConfig) THEN <<>>
    ELSE (IF Serves(i, model) THEN <<ProvidersConfig[i].name>> ELSE <<>>)
         \o FilterProviders_KeepsCurrent(i + 1, currentProvider, model)

RECURSIVE FilterProviders(_, _, _)
FilterProviders(i, currentProvider, model) ==
    IF i > Len(ProvidersConfig) THEN <<>>
    ELSE (IF ProvidersConfig[i].name # currentProvider /\ Serves(i, model)
          THEN <<ProvidersConfig[i].name>> ELSE <<>>)
         \o FilterProviders(i + 1, currentProvider, model)

\* config.providers.filter(...), then Promise.all over the credential lookups:
\* one missing credential rejects the whole list
getAlternativeProviders(currentProvider, model, keys) ==
    LET alternativeProviders == FilterProviders(1, currentProvider, model)
    IN  IF \E k \in DOMAIN alternativeProviders : alternativeProviders[k] \notin keys
        THEN {}
        ELSE {[k \in DOMAIN alternativeProviders |->
                 [provider |-> alternativeProviders[k],
                  apiKey   |-> EnvValue(alternativeProviders[k])]]}

(***************************************************************************)
(* createOptimizedConfig: the AxiosRequestConfig of one outbound call.     *)
(***************************************************************************)
\* data.functions/function_call, else data.tools/tool_choice: `if
\* (request.functions) {...} else if (request.tools) {...}`
dataFunctionsAndTools(request) ==
    IF ArrayTruthy(request.functions)
    THEN [functions     |-> request.functions,
          function_call |-> IF ChoiceTruthy(request.function_call)
                            THEN request.function_call ELSE {},
          tools         |-> {},
          tool_choice   |-> {}]
    ELSE IF ArrayTruthy(request.tools)
    THEN [functions     |-> {},
          function_call |-> {},
          tools         |-> request.tools,
          tool_choice   |-> IF ChoiceTruthy(request.tool_choice)
                            THEN request.tool_choice ELSE {}]
    ELSE [functions |-> {}, function_call |-> {}, tools |-> {}, tool_choice |-> {}]

\* the optional fields copied when `request[field] !== undefined`
optionalFields ==
    {"temperature", "top_p", "n", "stop", "max_tokens", "presence_penalty",
     "frequency_penalty", "logit_bias", "user"}

\* (a builder that forwards the caller-facing model id)
createOptimizedConfig_CallerModelId(providerConfig, request, stream, model) ==
    [method       |-> "post",
     provider     |-> providerConfig.provider,
     url          |-> ProviderNamed(providerConfig.provider).endpoint,
     headers      |-> [ContentType   |-> "application/json",
                       Authorization |-> <<"Bearer", providerConfig.apiKey>>],
     data         |-> [model       |-> model,
                       messages    |-> The(request.messages),
                       stream      |-> stream,
                       optional    |-> [field \in optionalFields |-> request[field]],
                       calling     |-> dataFunctionsAndTools(request)],
     responseType |-> IF stream THEN "stream" ELSE "json",
     timeout      |-> {}]

createOptimizedConfig(providerConfig, request, stream, model) ==
    [method       |-> "post",
     provider     |-> providerConfig.provider,
     url          |-> ProviderNamed(providerConfig.provider).endpoint,
     headers      |-> [ContentType   |-> "application/json",
                       Authorization |-> <<"Bearer", providerConfig.apiKey>>],
     data         |-> [model       |-> ProviderNamed(providerConfig.provider).models[model],
                       messages    |-> The(request.messages),
                       stream      |-> stream,
                       optional    |-> [field \in optionalFields |-> request[field]],
                       calling     |-> dataFunctionsAndTools(request)],
     responseType |-> IF stream THEN "stream" ELSE "json",
     timeout      |-> {}]

\* createFailoverFunction(15000)
FailoverTimeout == 15000

\* request.stream ?? false
StreamFlag(request) == IF request.stream = {} THEN FALSE ELSE The(request.stream)

(***************************************************************************)
(* Caller-visible error bodies.                                            *)
(***************************************************************************)
ImageError == "This model does not support image inputs"

\* `from` names the provider whose answer a body derives from; `message` and
\* `data` are filled where a body carries them
Json(status, error, issues, from, details) ==
    [status |-> status, error |-> error, issues |-> issues, from |-> from,
     details |-> details, message |-> "", data |-> {}]

\* the catch block of handleChatCompletions
handleChatCompletionsCatch(message, issues) ==
    IF message = ImageError
    THEN Json(400, message, issues, "", "")
    ELSE Json(500, message, issues, "", "")

\* utils/errorHandling handleError's errorResponse for an Error that carries
\* no statusCode: createErrorResponse(500, 'Internal server error')
errorResponse == Json(500, "Internal server error", {}, "", "")

\* what an upstream provider may do with a call
Outcomes == {"ok", "http", "transport", "timeout"}

\* what a provider answers with a 2xx status to a call that does not stream:
\* a completion whose first choice holds the assistant's message
UpstreamStatuses == {200, 201}

AssistantMessages ==
    [content       : Optional({Null, "text"}),
     function_call : Optional({"function call"}),
     tool_calls    : Optional({"tool calls"})]

CompletionBodies == {[choices |-> <<[message |-> m]>>] : m \in AssistantMessages}

\* what a provider answers with an error status
ErrorPayloads ==
    {"Rate limit reached for organization org-1", "Incorrect API key provided: sk-a"}

\* the HTTP response of a call with the given outcome, {} when there is none
AxiosResponses(outcome, responseType) ==
    CASE outcome = "ok" /\ responseType = "json" ->
             {{[status |-> st, data |-> b]} : st \in UpstreamStatuses, b \in CompletionBodies}
      [] outcome = "ok" /\ responseType = "stream" ->
             {{[status |-> 200, data |-> "stream"]}}
      [] outcome = "http" ->
             {{[status |-> 429, data |-> payload]} : payload \in ErrorPayloads}
      [] OTHER -> {{}}

\* error.message of the AxiosError
ErrorMessage(outcome) ==
    CASE outcome = "http" -> "Request failed with status code 429"
      [] outcome = "timeout" -> "timeout of 15000ms exceeded"
      [] OTHER -> "connect ECONNREFUSED"

\* processResponse's sendErrorResponse: status error.response?.status || 500,
\* error.message in `message`, the upstream payload in `details`
sendErrorResponse(provider, outcome, errorResponseOfCall) ==
    [Json(IF errorResponseOfCall # {} THEN The(errorResponseOfCall).status ELSE 500,
          "LLM API error", {}, provider,
          IF errorResponseOfCall # {} THEN The(errorResponseOfCall).data ELSE "")
     EXCEPT !.message = ErrorMessage(outcome)]

\* handleNonStreamingResponse: message.content = null when the first choice's
\* message has a function_call, then res.json(data) with the status left at
\* its default
handleNonStreamingResponse(provider, upstreamResponse) ==
    LET message == upstreamResponse.data.choices[1].message
        answer  == IF message.function_call # {}
                   THEN [choices |-> <<[message |-> [message EXCEPT !.content = {Null}]]>>]
                   ELSE upstreamResponse.data
    IN  [Json(200, "", {}, provider, "") EXCEPT !.data = {answer}]

(***************************************************************************)
(* The upstream's event stream, byte by byte.  Bytes that always travel    *)
(* together in what follows are one token: the six ASCII bytes `data: `,   *)
(* the ASCII text of a chunk object up to the opening quote of             *)
(* choices[0].delta.content (ObjectHead) and from its closing quote on     *)
(* (ObjectTail), and the text [DONE].  "a" is an ASCII letter of the       *)
(* content; C3 and A9                                                      *)
(* are the two bytes of the UTF-8 encoding of one non-ASCII letter.        *)
(***************************************************************************)
Prefix == "data: "
ObjectHead == "{choices:[{delta:{content:'"
ObjectTail == "'}}]}"
DoneText == "[DONE]"
ErrorText == "[ERROR] Stream processing failed"
LF == "LF"
CR == "CR"
C3 == "C3"
A9 == "A9"
\* the letter C3 A9 encodes, and U+FFFD
Letter == "e-acute"
Replacement == "U+FFFD"

\* lines an upstream sends, each with its terminating newline
LineValues ==
    { <<Prefix, ObjectHead, "a", ObjectTail, LF>>,
      <<Prefix, ObjectHead, C3, A9, ObjectTail, LF>>,
      <<Prefix, DoneText, LF>>,
      <<Prefix, DoneText, CR, LF>>,
      <<LF>> }

RECURSIVE Flatten(_)
Flatten(lines) ==
    IF lines = <<>> THEN <<>> ELSE Head(lines) \o Flatten(Tail(lines))

\* byte sequences: up to MaxLines whole lines, then possibly the start of a
\* line whose newline never comes
Streams ==
    {Flatten(ls) \o t : ls \in SeqsUpTo(LineValues, MaxLines),
                        t \in {<<>>, <<Prefix, DoneText>>}}

\* chunk.toString(): UTF-8 decoding of one chunk on its own.  A lead byte
\* followed by its continuation byte is the letter; a lead byte that ends the
\* chunk, and a continuation byte that starts it, are each U+FFFD.
RECURSIVE toString(_)
toString(chunk) ==
    IF chunk = <<>> THEN <<>>
    ELSE IF chunk[1] = C3 /\ Len(chunk) >= 2 /\ chunk[2] = A9
         THEN <<Letter>> \o toString(SubSeq(chunk, 3, Len(chunk)))
    ELSE IF chunk[1] \in {C3, A9}
         THEN <<Replacement>> \o toString(SubSeq(chunk, 2, Len(chunk)))
    ELSE <<chunk[1]>> \o toString(SubSeq(chunk, 2, Len(chunk)))

Whitespace == {CR, LF, " "}

\* String.prototype.trim
RECURSIVE trim(_)
trim(line) ==
    IF line = <<>> THEN <<>>
    ELSE IF line[1] \in Whitespace THEN trim(SubSeq(line, 2, Len(line)))
    ELSE IF line[Len(line)] \in Whitespace THEN trim(SubSeq(line, 1, Len(line) - 1))
    ELSE line

\* the frame res.write(`data: ${text}\n\n`) writes
Frame(text) == <<Prefix>> \o text \o <<LF, LF>>

DoneFrame == Frame(<<DoneText>>)

ErrorFrame == Frame(<<ErrorText>>)

\* JSON.parse succeeds on the text of a chunk object whose content is any
\* string of characters, and JSON.stringify gives that text back
JsonParses(text) ==
    /\ Len(text) >= 2
    /\ text[1] = ObjectHead
    /\ text[Len(text)] = ObjectTail
    /\ \A i \in 2..(Len(text) - 1) : text[i] \in {"a", Letter, Replacement}

\* processJsonData on a chunk object without function_call: the frames written
processJsonData(text) ==
    IF JsonParses(text) THEN <<Frame(text)>> ELSE <<>>

\* processDataLine: the frames written for the text after `data: `
processDataLine(text) ==
    IF text = <<DoneText>> THEN <<DoneFrame>> ELSE processJsonData(text)

\* str.indexOf('\n'), 0 for -1
indexOfNewline(str) ==
    IF \E i \in DOMAIN str : str[i] = LF
    THEN CHOOSE i \in DOMAIN str : str[i] = LF /\ \A j \in 1..(i - 1) : str[j] # LF
    ELSE 0

\* processBuffer: the while loop over the complete lines of the buffer;
\* yields what is left in the buffer and the frames written, in order
RECURSIVE processBuffer(_, _)
processBuffer(buf, written) ==
    LET newlineIndex == indexOfNewline(buf)
    IN  IF newlineIndex = 0 THEN [buffer |-> buf, written |-> written]
        ELSE LET line == trim(SubSeq(buf, 1, newlineIndex - 1))
                 rest == SubSeq(buf, newlineIndex + 1, Len(buf))
             IN  processBuffer(rest,
                     IF line # <<>> /\ line[1] = Prefix
                     THEN written \o processDataLine(SubSeq(line, 2, Len(line)))
                     ELSE written)

(***************************************************************************)
(* utils/sanitizationUtils: sanitizeChatCompletionRequest.                 *)
(***************************************************************************)
\* DOMPurify on one piece of text, with the tags allowed for user text
\* (b, i, em, strong, a): an allowed element stays, an element that is not
\* allowed goes and leaves its content, a script element goes with its content
purifyToken(t) ==
    CASE t = "<u>a</u>"           -> <<"a">>
      [] t = "<script>a</script>" -> <<>>
      [] OTHER                    -> <<t>>

RECURSIVE purify(_)
purify(text) ==
    IF text = <<>> THEN <<>> ELSE purifyToken(Head(text)) \o purify(Tail(text))

\* purify.sanitize(input, config).toString().trim()
sanitizeInput(input) == trim(purify(input))

\* truthiness of an optional string: undefined and '' are falsy
TextTruthy(text) == text # {} /\ The(text) # <<>>

\* sanitizeFunctionCall, of a message's function_call
sanitizeFunctionCall(functionCall) ==
    IF functionCall.kind = "null" THEN NullFunctionCall
    ELSE [kind      |-> "object",
          name      |-> sanitizeInput(functionCall.name),
          arguments |-> sanitizeInput(functionCall.arguments)]

\* the object sanitizeMessages maps one message to.  `name: undefined` is a
\* key that JSON.stringify leaves out and is modelled as the absent key;
\* `function_call: null` is a key that it writes.
sanitizeMessage(msg) ==
    [role          |-> msg.role,
     content       |-> IF msg.content.kind = "string"
                       THEN [msg.content EXCEPT !.text = sanitizeInput(@)]
                       ELSE msg.content,
     name          |-> IF TextTruthy(msg.name)
                       THEN {sanitizeInput(The(msg.name))} ELSE {},
     function_call |-> IF msg.function_call # {}
                          /\ The(msg.function_call).kind # "null"
                       THEN {sanitizeFunctionCall(The(msg.function_call))}
                       ELSE {NullFunctionCall}]

sanitizeMessages(messages) ==
    [k \in DOMAIN messages |-> sanitizeMessage(messages[k])]

\* the object sanitizeFunctions maps one definition to, which is also what
\* sanitizeTools puts under `function`
sanitizeFunction(fn) ==
    [fn EXCEPT !.name = sanitizeInput(@),
               !.description = IF TextTruthy(@) THEN {sanitizeInput(The(@))} ELSE @]

sanitizeFunctions(functions) ==
    IF functions = {} THEN {}
    ELSE {[k \in DOMAIN The(functions) |-> sanitizeFunction(The(functions)[k])]}

sanitizeTools(tools) ==
    IF tools = {} THEN {}
    ELSE {[k \in DOMAIN The(tools) |->
             [The(tools)[k] EXCEPT !.function = sanitizeFunction(@)]]}

\* sanitizeChatCompletionRequest(input), for an input the schema parses
sanitizeChatCompletionRequest(input) ==
    LET parsedInput == chatCompletionSchemaParse(input)
    IN  [parsedInput EXCEPT
            !.messages  = {sanitizeMessages(The(@))},
            !.functions = sanitizeFunctions(@),
            !.tools     = sanitizeTools(@),
            !.user      = IF TextTruthy(@) THEN {sanitizeInput(The(@))} ELSE {}]

(***************************************************************************)
(* Chunk objects with function calls.  A JSON string is a TLA+ string, a   *)
(* missing key is {}.                                                      *)
(***************************************************************************)
FunctionCallFragments ==
    [name : Optional({"", "foo"}), arguments : Optional({"", "{\"x\":"})]

Deltas ==
    [role          : Optional({"assistant"}),
     content       : Optional({Null, "text"}),
     function_call : Optional(FunctionCallFragments)]

\* what a data line may parse to: a chunk with one choice, or with none
ChunkObjects ==
    {[choices |-> <<[delta |-> d]>>] : d \in Deltas} \cup {[choices |-> <<>>]}

\* truthiness of an optional string: undefined and '' are falsy
StringTruthy(str) == str # {} /\ The(str) # ""

\* handleFunctionCalls: the object after the call, {} when
\* parsed.choices[0].delta throws a TypeError
handleFunctionCalls(object) ==
    IF object.choices = <<>> THEN {}
    ELSE LET delta == object.choices[1].delta
         IN  IF delta.function_call = {} THEN {object}
             ELSE LET functionCall == The(delta.function_call)
                      normalized ==
                          IF StringTruthy(functionCall.name)
                          THEN [name |-> functionCall.name, arguments |-> {}]
                          ELSE IF StringTruthy(functionCall.arguments)
                          THEN [name |-> {}, arguments |-> functionCall.arguments]
                          ELSE [name |-> {}, arguments |-> {}]
                  IN  {[choices |-> <<[delta |-> [delta EXCEPT
                                                     !.content = {Null},
                                                     !.function_call = {normalized}]]>>]}

(***************************************************************************)
(* State after construction: a worker with its environment, no request.    *)
(***************************************************************************)
Init ==
    /\ apiKeys \in SUBSET ProviderNames
    /\ assumeAll \in BOOLEAN
    /\ pc = "idle"
    /\ body = EmptyBody
    /\ apiKeyInfo = {}
    /\ upstream = <<>>
    /\ access = "none"
    /\ image = "none"
    /\ failover = "idle"
    /\ providers = <<>>
    /\ selected = {}
    /\ calls = <<>>
    /\ headersSent = FALSE
    /\ responses = <<>>
    /\ frames = <<>>
    /\ ended = FALSE
    /\ chunksRead = 0
    /\ attemptConfig = {}
    /\ closed = FALSE
    /\ wire = [sent |-> <<>>, pending |-> <<>>, failed |-> FALSE]
    /\ buffer = <<>>
    /\ data = {}
    /\ parsed = {}
    /\ response = {}
    /\ sanitizedBody = {}
    /\ configFiles = [models |-> 1, providers |-> 1]
    /\ observed = <<>>

\* res.status(s).json(b), ending the handler
Respond(r) ==
    /\ responses' = Append(responses, r)
    /\ headersSent' = TRUE
    /\ ended' = TRUE
    /\ pc' = "done"

\* the handler returns without writing anything
ReturnSilently ==
    /\ pc' = "done"
    /\ UNCHANGED <<responses, headersSent, ended>>

\* an Error with `message` reaches the catch block of handleChatCompletions
CatchBlock(message, issues) ==
    IF ~headersSent
    THEN Respond(handleChatCompletionsCatch(message, issues))
    ELSE ReturnSilently

\* (a handler that logs the error and answers nothing)
handleError_Swallows == ReturnSilently

\* utils/errorHandling handleError(res, error), called from the catch block
\* of validateAndProcessRequest
handleError ==
    IF ~headersSent THEN Respond(errorResponse) ELSE ReturnSilently

\* POST /v1/chat/completions arrives, the auth middleware has set req.apiKeyInfo
Receive ==
    /\ pc = "idle"
    /\ body' \in Bodies
    /\ apiKeyInfo' \in ApiKeyInfos
    /\ pc' = "received"
    /\ UNCHANGED <<apiKeys, assumeAll, upstream, access, image, failover, providers,
                   selected, calls, headersSent, responses, frames, ended,
                   chunksRead, attemptConfig>>
    /\ UNCHANGED <<closed, processorVars>>
    /\ UNCHANGED response
    /\ UNCHANGED <<sanitizedBody, configVars>>

\* handleChatCompletions up to its first await: sanitizeChatCompletionRequest
\* parses with the schema and throws a ZodError into the catch block; the
\* sanitized body is then validated against the same schema
HandleChatCompletions ==
    /\ pc = "received"
    /\ LET parseIssues == chatCompletionSchemaIssues(body)
       IN  IF parseIssues # {}
           THEN /\ CatchBlock("ZodError", parseIssues)
                /\ UNCHANGED sanitizedBody
           ELSE LET sanitized == sanitizeChatCompletionRequest(body)
                    validationErrors == chatCompletionSchemaIssues(sanitized)
                IN  /\ sanitizedBody' = {sanitized}
                    /\ IF validationErrors # {}
                       THEN Respond(Json(400, "", validationErrors, "", ""))
                       ELSE /\ pc' = "getModelInfo"
                            /\ UNCHANGED <<responses, headersSent, ended>>
    /\ UNCHANGED <<apiKeys, assumeAll, body, apiKeyInfo, upstream, access, image,
                   failover, providers, selected, calls, frames, chunksRead,
                   attemptConfig>>
    /\ UNCHANGED <<closed, processorVars>>
    /\ UNCHANGED response
    /\ UNCHANGED configVars

\* validateAndProcessRequest: await getModelInfo, then checkPremiumAccess; both
\* throw into the catch block of handleChatCompletions.  getModelInfo reads
\* models/config.json from disk when it is called.
GetModelInfo ==
    /\ pc = "getModelInfo"
    /\ LET modelId == The(The(sanitizedBody).model)
           modelInfo == getModelInfo(modelId)
       IN  IF modelInfo = {}
           THEN /\ CatchBlock("Failed to retrieve model information", {})
                /\ UNCHANGED access
           ELSE IF ~checkPremiumAccess(The(modelInfo), apiKeyInfo)
                THEN /\ access' = "deny"
                     /\ CatchBlock("Premium access required for this model", {})
                ELSE /\ access' = "allow"
                     /\ pc' = "modelSupportsImages"
                     /\ UNCHANGED <<responses, headersSent, ended>>
    /\ UNCHANGED <<apiKeys, assumeAll, body, apiKeyInfo, upstream, image, failover,
                   providers, selected, calls, frames, chunksRead, attemptConfig>>
    /\ UNCHANGED <<closed, processorVars>>
    /\ UNCHANGED response
    /\ observed' = Append(observed, [file |-> "models", version |-> configFiles.models])
    /\ UNCHANGED <<sanitizedBody, configFiles>>

\* validateAndProcessRequest: await modelSupportsImages, then the image test
ImageCheck ==
    /\ pc = "modelSupportsImages"
    /\ LET supportsImages == modelSupportsImages(The(The(sanitizedBody).model), assumeAll)
       IN  IF ~supportsImages /\ hasImageContent(The(The(sanitizedBody).messages))
           THEN /\ image' = "deny"
                /\ CatchBlock(ImageError, {})
           ELSE /\ image' = "allow"
                /\ pc' = "getProvider"
                /\ UNCHANGED <<responses, headersSent, ended>>
    /\ UNCHANGED <<apiKeys, assumeAll, body, apiKeyInfo, upstream, access, failover,
                   providers, selected, calls, frames, chunksRead, attemptConfig>>
    /\ UNCHANGED <<closed, processorVars>>
    /\ UNCHANGED response
    /\ UNCHANGED <<sanitizedBody, configVars>>

(***************************************************************************)
(* failoverFunction, called inside the try block of                        *)
(* validateAndProcessRequest: whatever it throws goes to handleError.      *)
(***************************************************************************)
\* failoverFunction up to the end of `await getProviderAndApiKey(request)`,
\* which reads providers/chat-completions.json from disk when it is called.
\* The dispositions of the providers serving the model are fixed here, when
\* the request reaches the executor.
GetProvider ==
    /\ pc = "getProvider"
    /\ upstream' \in [Serving(The(The(sanitizedBody).model)) -> Outcomes]
    /\ LET originalProvider == getProviderAndApiKey(The(The(sanitizedBody).model), apiKeys)
       IN  IF originalProvider = {}
           THEN /\ failover' = "failed"
                /\ handleError
                /\ UNCHANGED providers
           ELSE /\ failover' = "running"
                /\ providers' = <<The(originalProvider)>>
                /\ pc' = "getAlternatives"
                /\ UNCHANGED <<responses, headersSent, ended>>
    /\ UNCHANGED <<apiKeys, assumeAll, body, apiKeyInfo, access, image, selected,
                   calls, frames, chunksRead, attemptConfig>>
    /\ UNCHANGED <<closed, processorVars>>
    /\ UNCHANGED response
    /\ observed' = Append(observed, [file |-> "providers", version |-> configFiles.providers])
    /\ UNCHANGED <<sanitizedBody, configFiles>>

\* `await getAlternativeProviders(...)`, which reads
\* providers/chat-completions.json from disk again, then the loop's first
\* iteration up to its await: createOptimizedConfig, config.timeout = timeout,
\* the random delay
GetAlternatives ==
    /\ pc = "getAlternatives"
    /\ LET originalProvider == providers[1]
           alternatives == getAlternativeProviders(originalProvider.provider,
                                                   The(The(sanitizedBody).model), apiKeys)
       IN  IF alternatives = {}
           THEN /\ failover' = "failed"
                /\ handleError
                /\ UNCHANGED <<providers, attemptConfig>>
           ELSE /\ providers' = <<originalProvider>> \o The(alternatives)
                /\ attemptConfig' =
                       {[createOptimizedConfig(originalProvider, The(sanitizedBody),
                                               StreamFlag(The(sanitizedBody)),
                                               The(The(sanitizedBody).model))
                           EXCEPT !.timeout = {FailoverTimeout}]}
                /\ pc' = "attempt"
                /\ UNCHANGED <<failover, responses, headersSent, ended>>
    /\ UNCHANGED <<apiKeys, assumeAll, body, apiKeyInfo, upstream, access, image,
                   selected, calls, frames, chunksRead>>
    /\ UNCHANGED <<closed, processorVars>>
    /\ UNCHANGED response
    /\ observed' = Append(observed, [file |-> "providers", version |-> configFiles.providers])
    /\ UNCHANGED <<sanitizedBody, configFiles>>

\* The delay of the first iteration elapses: nothing in the try block throws,
\* so failoverFunction returns the first candidate and its config is dropped;
\* the catch branch, the later iterations and the final throw of 'All
\* providers failed to process the request' are never taken.
\* validateAndProcessRequest builds the config anew and processResponse
\* issues axios(config).  (The call site passes {res, config, model, stream}
\* as one object; processResponse is declared with four parameters and is
\* modelled as called with them.)
FailoverAttempt ==
    /\ pc = "attempt"
    /\ LET providerConfig == providers[1]
           config == createOptimizedConfig(providerConfig, The(sanitizedBody),
                                           StreamFlag(The(sanitizedBody)),
                                           The(The(sanitizedBody).model))
       IN  /\ selected' = {providerConfig.provider}
           /\ calls' = Append(calls, config)
    /\ failover' = "resolved"
    /\ attemptConfig' = {}
    /\ pc' = "axios"
    /\ UNCHANGED <<apiKeys, assumeAll, body, apiKeyInfo, upstream, access, image,
                   providers, headersSent, responses, frames, ended, chunksRead>>
    /\ UNCHANGED <<closed, processorVars>>
    /\ UNCHANGED response
    /\ UNCHANGED <<sanitizedBody, configVars>>

(***************************************************************************)
(* processResponse: the outbound call settles.                             *)
(***************************************************************************)
UpstreamRespond ==
    /\ pc = "axios"
    /\ LET call == calls[Len(calls)]
           outcome == upstream[call.provider]
       IN  \* axios gives up on a silent provider only when config.timeout is set
           /\ outcome = "timeout" => call.timeout # {}
           /\ response' \in AxiosResponses(outcome, call.responseType)
           /\ IF outcome = "ok"
              THEN IF call.responseType = "stream"
                   THEN \* handleStreamingResponse: the three setHeader calls
                        /\ pc' = "streaming"
                        /\ UNCHANGED <<responses, headersSent, ended>>
                   ELSE IF ~headersSent
                        THEN Respond(handleNonStreamingResponse(call.provider,
                                                                The(response')))
                        ELSE ReturnSilently
              ELSE \* the catch block: processResponse's own handleError
                   IF headersSent
                   THEN ReturnSilently
                   ELSE Respond(sendErrorResponse(call.provider, outcome, response'))
    /\ UNCHANGED <<apiKeys, assumeAll, body, apiKeyInfo, upstream, access, image,
                   failover, providers, selected, calls, frames, chunksRead,
                   attemptConfig>>
    /\ UNCHANGED <<closed, processorVars>>
    /\ UNCHANGED <<sanitizedBody, configVars>>

(***************************************************************************)
(* handleStreamingResponse: the for-await loop over response.data.         *)
(***************************************************************************)
\* chunks that hold exactly one complete line: a chunk object, a data line
\* that is not JSON (logged and skipped) and the [DONE] terminator
ChunkValues ==
    { <<Prefix, ObjectHead, "a", ObjectTail, LF>>,
      <<Prefix, "a", LF>>,
      <<Prefix, DoneText, LF>> }

\* processChunk on one such chunk; the buffer is empty before and after
StreamChunk ==
    /\ pc = "streaming"
    /\ chunksRead < MaxChunks
    /\ \E chunk \in ChunkValues :
          LET result == processBuffer(buffer \o toString(chunk), <<>>)
          IN  /\ frames' = frames \o result.written
              /\ headersSent' = (headersSent \/ result.written # <<>>)
              /\ result.buffer = buffer
    /\ chunksRead' = chunksRead + 1
    /\ UNCHANGED <<apiKeys, assumeAll, pc, body, apiKeyInfo, upstream, access, image,
                   failover, providers, selected, calls, responses, ended,
                   attemptConfig>>
    /\ UNCHANGED <<closed, processorVars>>
    /\ UNCHANGED response
    /\ UNCHANGED <<sanitizedBody, configVars>>

\* A relay that, on a stream error, turned to the next candidate instead of
\* ending the response.
StreamError_FailsOver ==
    /\ pc = "streaming"
    /\ LET next == providers[IF Len(providers) > 1 THEN 2 ELSE 1]
       IN  calls' = Append(calls, createOptimizedConfig(next, The(sanitizedBody),
                                                        StreamFlag(The(sanitizedBody)),
                                                        The(The(sanitizedBody).model)))
    /\ pc' = "axios"
    /\ UNCHANGED <<apiKeys, assumeAll, body, apiKeyInfo, upstream, access, image,
                   failover, providers, selected, headersSent, responses, frames,
                   ended, chunksRead, attemptConfig>>
    /\ UNCHANGED <<closed, processorVars>>
    /\ UNCHANGED response
    /\ UNCHANGED <<sanitizedBody, configVars>>

\* (a relay whose end() does not look at writableEnded and writes [DONE]
\* after the error frame)
StreamError_DoneAfterError ==
    /\ pc = "streaming"
    /\ wire' = [wire EXCEPT !.failed = TRUE]
    /\ frames' = frames \o <<ErrorFrame, DoneFrame>>
    /\ headersSent' = TRUE
    /\ ended' = TRUE
    /\ pc' = "done"
    /\ UNCHANGED <<apiKeys, assumeAll, body, apiKeyInfo, upstream, access, image,
                   failover, providers, selected, calls, responses, chunksRead,
                   attemptConfig>>
    /\ UNCHANGED <<closed, buffer, data, parsed>>
    /\ UNCHANGED response
    /\ UNCHANGED <<sanitizedBody, configVars>>

\* (a relay that reports a stream error with a JSON error response, whatever
\* has been written before)
StreamError_JsonErrorBody ==
    /\ pc = "streaming"
    /\ wire' = [wire EXCEPT !.failed = TRUE]
    /\ Respond(errorResponse)
    /\ UNCHANGED <<apiKeys, assumeAll, body, apiKeyInfo, upstream, access, image,
                   failover, providers, selected, calls, frames, chunksRead,
                   attemptConfig>>
    /\ UNCHANGED <<closed, buffer, data, parsed>>
    /\ UNCHANGED response
    /\ UNCHANGED <<sanitizedBody, configVars>>

\* The upstream stream errors: the catch block writes the error frame and ends
\* the response; streamProcessor.end() in finally then finds it ended.
StreamError ==
    /\ pc = "streaming"
    /\ wire' = [wire EXCEPT !.failed = TRUE]
    /\ IF ~ended
       THEN /\ frames' = Append(frames, ErrorFrame)
            /\ headersSent' = TRUE
            /\ ended' = TRUE
       ELSE UNCHANGED <<frames, headersSent, ended>>
    /\ pc' = "done"
    /\ UNCHANGED <<apiKeys, assumeAll, body, apiKeyInfo, upstream, access, image,
                   failover, providers, selected, calls, responses, chunksRead,
                   attemptConfig>>
    /\ UNCHANGED <<closed, buffer, data, parsed>>
    /\ UNCHANGED response
    /\ UNCHANGED <<sanitizedBody, configVars>>

\* The upstream stream ends: streamProcessor.end() writes [DONE] and ends.
StreamEnd ==
    /\ pc = "streaming"
    /\ wire.pending = <<>>
    /\ IF ~ended
       THEN /\ frames' = Append(frames, DoneFrame)
            /\ headersSent' = TRUE
            /\ ended' = TRUE
       ELSE UNCHANGED <<frames, headersSent, ended>>
    /\ pc' = "done"
    /\ UNCHANGED <<apiKeys, assumeAll, body, apiKeyInfo, upstream, access, image,
                   failover, providers, selected, calls, responses, chunksRead,
                   attemptConfig>>
    /\ UNCHANGED <<closed, processorVars>>
    /\ UNCHANGED response
    /\ UNCHANGED <<sanitizedBody, configVars>>

\* The caller's connection closes while the stream is relayed.  No handler
\* is registered for it and nothing in the relay reads the connection's state.
ClientClose ==
    /\ pc = "streaming"
    /\ ~closed
    /\ closed' = TRUE
    /\ UNCHANGED <<apiKeys, assumeAll, pc, body, apiKeyInfo, upstream, access, image,
                   failover, providers, selected, calls, headersSent, responses,
                   frames, ended, chunksRead, attemptConfig, processorVars>>
    /\ UNCHANGED response
    /\ UNCHANGED <<sanitizedBody, configVars>>

\* POST /v1/chat/completions arrives with a request that may use function
\* calling and tools
ReceiveToolRequest ==
    /\ pc = "idle"
    /\ body' \in ToolBodies
    /\ apiKeyInfo' \in ApiKeyInfos
    /\ pc' = "received"
    /\ UNCHANGED <<apiKeys, assumeAll, upstream, access, image, failover, providers,
                   selected, calls, headersSent, responses, frames, ended,
                   chunksRead, attemptConfig>>
    /\ UNCHANGED <<closed, processorVars>>
    /\ UNCHANGED response
    /\ UNCHANGED <<sanitizedBody, configVars>>

Next ==
    \/ Receive
    \/ HandleChatCompletions
    \/ GetModelInfo
    \/ ImageCheck
    \/ GetProvider
    \/ GetAlternatives
    \/ FailoverAttempt
    \/ UpstreamRespond
    \/ StreamChunk
    \/ StreamError
    \/ StreamEnd
    \/ ClientClose

Spec == Init /\ [][Next]_vars

\* the same pipeline, fed with requests that use function calling and tools
NextTools ==
    \/ ReceiveToolRequest
    \/ HandleChatCompletions
    \/ GetModelInfo
    \/ ImageCheck
    \/ GetProvider
    \/ GetAlternatives
    \/ FailoverAttempt
    \/ UpstreamRespond
    \/ StreamChunk
    \/ StreamError
    \/ StreamEnd
    \/ ClientClose

SpecTools == Init /\ [][NextTools]_vars

(***************************************************************************)
(* The pipeline under fair scheduling: the event loop runs every           *)
(* continuation that is ready, and an upstream stream that has been opened *)
(* ends or errors.                                                         *)
(***************************************************************************)
\* a worker whose environment holds every credential, lacks the primary's, or
\* lacks the alternatives'
InitSample ==
    /\ Init
    /\ apiKeys \in {ProviderNames, {"B", "C"}, {"A"}}
    /\ ~assumeAll

ReceiveSample ==
    /\ pc = "idle"
    /\ body' \in SampleBodies
    /\ apiKeyInfo' \in ApiKeyInfos
    /\ pc' = "received"
    /\ UNCHANGED <<apiKeys, assumeAll, upstream, access, image, failover, providers,
                   selected, calls, headersSent, responses, frames, ended,
                   chunksRead, attemptConfig>>
    /\ UNCHANGED <<closed, processorVars>>
    /\ UNCHANGED response
    /\ UNCHANGED <<sanitizedBody, configVars>>

NextSample ==
    \/ ReceiveSample
    \/ HandleChatCompletions
    \/ GetModelInfo
    \/ ImageCheck
    \/ GetProvider
    \/ GetAlternatives
    \/ FailoverAttempt
    \/ UpstreamRespond
    \/ StreamChunk
    \/ StreamError
    \/ StreamEnd
    \/ ClientClose

\* the sample requests in every environment
SpecSample == Init /\ [][NextSample]_vars

SpecFair == InitSample /\ [][NextSample]_vars /\ WF_vars(NextSample)

(***************************************************************************)
(* The same requests while an operator, or a deployment, rewrites the      *)
(* configuration files.                                                    *)
(***************************************************************************)
\* one of the two files is replaced by a new version
RewriteConfig ==
    /\ configFiles.models + configFiles.providers < 2 + MaxRewrites
    /\ \E file \in {"models", "providers"} :
          configFiles' = [configFiles EXCEPT ![file] = @ + 1]
    /\ UNCHANGED <<apiKeys, assumeAll, pc, body, apiKeyInfo, upstream, access, image,
                   failover, providers, selected, calls, headersSent, responses,
                   frames, ended, chunksRead, attemptConfig>>
    /\ UNCHANGED <<closed, processorVars>>
    /\ UNCHANGED response
    /\ UNCHANGED <<sanitizedBody, observed>>

NextConfig ==
    \/ ReceiveSample
    \/ HandleChatCompletions
    \/ GetModelInfo
    \/ ImageCheck
    \/ GetProvider
    \/ GetAlternatives
    \/ FailoverAttempt
    \/ UpstreamRespond
    \/ StreamChunk
    \/ StreamError
    \/ StreamEnd
    \/ ClientClose
    \/ RewriteConfig

SpecConfig == InitSample /\ [][NextConfig]_vars

(***************************************************************************)
(* Valid requests with text to sanitize and parameters to pass on, which   *)
(* do not stream, in a worker that holds every credential.                 *)
(***************************************************************************)
InitRich ==
    /\ Init
    /\ apiKeys = ProviderNames
    /\ ~assumeAll

ReceiveRich ==
    /\ pc = "idle"
    /\ body' \in RichBodies
    /\ apiKeyInfo' = {[premium |-> FALSE]}
    /\ pc' = "received"
    /\ UNCHANGED <<apiKeys, assumeAll, upstream, access, image, failover, providers,
                   selected, calls, headersSent, responses, frames, ended,
                   chunksRead, attemptConfig>>
    /\ UNCHANGED <<closed, processorVars>>
    /\ UNCHANGED response
    /\ UNCHANGED <<sanitizedBody, configVars>>

NextRich ==
    \/ ReceiveRich
    \/ HandleChatCompletions
    \/ GetModelInfo
    \/ ImageCheck
    \/ GetProvider
    \/ GetAlternatives
    \/ FailoverAttempt
    \/ UpstreamRespond

SpecRich == InitRich /\ [][NextRich]_vars

(***************************************************************************)
(* handleStreamingResponse on its own: the relay of one upstream stream,   *)
(* whose bytes arrive in chunks cut anywhere.                              *)
(***************************************************************************)
InitStream ==
    /\ apiKeys = ProviderNames
    /\ assumeAll = FALSE
    /\ pc = "streaming"
    /\ body = EmptyBody
    /\ apiKeyInfo = {}
    /\ upstream = <<>>
    /\ access = "none"
    /\ image = "none"
    /\ failover = "idle"
    /\ providers = <<>>
    /\ selected = {}
    /\ calls = <<>>
    /\ headersSent = FALSE
    /\ responses = <<>>
    /\ frames = <<>>
    /\ ended = FALSE
    /\ chunksRead = 0
    /\ attemptConfig = {}
    /\ closed = FALSE
    /\ wire \in {[sent |-> <<>>, pending |-> bytes, failed |-> FALSE] : bytes \in Streams}
    /\ buffer = <<>>
    /\ data = {}
    /\ parsed = {}
    /\ response = {}
    /\ sanitizedBody = {}
    /\ configFiles = [models |-> 1, providers |-> 1]
    /\ observed = <<>>

\* the body of the for-await loop: processChunk(chunk) for the next chunk, of
\* any length the transport cuts
ProcessChunk ==
    /\ pc = "streaming"
    /\ wire.pending # <<>>
    /\ \E n \in 1..Len(wire.pending) :
          LET chunk  == SubSeq(wire.pending, 1, n)
              result == processBuffer(buffer \o toString(chunk), <<>>)
          IN  /\ wire' = [wire EXCEPT
                              !.sent = wire.sent \o chunk,
                              !.pending = SubSeq(wire.pending, n + 1, Len(wire.pending))]
              /\ buffer' = result.buffer
              /\ frames' = frames \o result.written
              /\ headersSent' = (headersSent \/ result.written # <<>>)
    /\ UNCHANGED <<apiKeys, assumeAll, pc, body, apiKeyInfo, upstream, access, image,
                   failover, providers, selected, calls, responses, ended,
                   chunksRead, attemptConfig, closed, data, parsed>>
    /\ UNCHANGED response
    /\ UNCHANGED <<sanitizedBody, configVars>>

(***************************************************************************)
(* processJsonData on its own: one data line that holds a chunk object.    *)
(***************************************************************************)
InitDelta ==
    /\ apiKeys = ProviderNames
    /\ assumeAll = FALSE
    /\ pc = "processJsonData"
    /\ body = EmptyBody
    /\ apiKeyInfo = {}
    /\ upstream = <<>>
    /\ access = "none"
    /\ image = "none"
    /\ failover = "idle"
    /\ providers = <<>>
    /\ selected = {}
    /\ calls = <<>>
    /\ headersSent = FALSE
    /\ responses = <<>>
    /\ frames = <<>>
    /\ ended = FALSE
    /\ chunksRead = 0
    /\ attemptConfig = {}
    /\ closed = FALSE
    /\ wire = [sent |-> <<>>, pending |-> <<>>, failed |-> FALSE]
    /\ buffer = <<>>
    /\ data \in {{object} : object \in ChunkObjects}
    /\ parsed = {}
    /\ response = {}
    /\ sanitizedBody = {}
    /\ configFiles = [models |-> 1, providers |-> 1]
    /\ observed = <<>>

\* processJsonData: JSON.parse, handleFunctionCalls, res.write; an exception
\* is logged and the line dropped
ProcessJsonData ==
    /\ pc = "processJsonData"
    /\ LET result == handleFunctionCalls(The(data))
       IN  /\ parsed' = result
           /\ frames' = IF result = {} THEN frames
                        ELSE Append(frames, Frame(<<The(result)>>))
           /\ headersSent' = (headersSent \/ result # {})
    /\ pc' = "streaming"
    /\ UNCHANGED <<apiKeys, assumeAll, body, apiKeyInfo, upstream, access, image,
                   failover, providers, selected, calls, responses, ended,
                   chunksRead, attemptConfig, closed, wire, buffer, data>>
    /\ UNCHANGED response
    /\ UNCHANGED <<sanitizedBody, configVars>>

NextDelta ==
    \/ ProcessJsonData

SpecDelta == InitDelta /\ [][NextDelta]_vars

NextStream ==
    \/ ProcessChunk
    \/ StreamError
    \/ StreamEnd
    \/ ClientClose

SpecStream == InitStream /\ [][NextStream]_vars

\* The relay's own step is taken whenever a chunk is there to read; when the
\* upstream ends or errors is the upstream's affair, and it may never do so.
SpecStreamFair == InitStream /\ [][NextStream]_vars /\ WF_vars(ProcessChunk)

(***************************************************************************)
(* Vocabulary of the properties.                                           *)
(***************************************************************************)
Done == pc = "done"

SchemaValid == chatCompletionSchemaIssues(body) = {}

\* the executor (failoverFunction) has been entered for this request
ReachedExecutor == failover # "idle"

\* the providers whose table maps the requested model, in configuration order
Candidates == FilterProviders(1, "", The(body.model))

Credentialed(p) == p \in apiKeys

\* something has been written to the caller
Written == headersSent \/ frames # <<>> \/ responses # <<>>

\* something produced by an upstream provider has been written to the caller
Relayed == frames # <<>> \/ \E i \in DOMAIN responses : responses[i].from # ""

\* the caller got the answer of provider p: its JSON body with status 200, or
\* the stream relayed from it
AnsweredBy(p) ==
    /\ selected = {p}
    /\ \A i \in DOMAIN calls : calls[i].provider = p
    /\ \/ /\ Len(responses) = 1
          /\ responses[1].status = 200
          /\ responses[1].from = p
       \/ /\ responses = <<>>
          /\ ended

FourHundredClass(status) == status \in 400..499

(***************************************************************************)
(* C1: failover order.  For a request served by candidates [A, B, C] in    *)
(* that order, if A's call fails and B answers 2xx, the caller's response  *)
(* is B's, no call is made to C and A's failure is not delivered.          *)
(* Stated of finished requests whose three candidates all hold a           *)
(* credential.                                                             *)
(***************************************************************************)
C1_FailoverOrder ==
    ( /\ Done
      /\ ReachedExecutor
      /\ Candidates = <<"A", "B", "C">>
      /\ \A p \in {"A", "B", "C"} : Credentialed(p)
      /\ upstream["A"] # "ok"
      /\ upstream["B"] = "ok" )
    => /\ AnsweredBy("B") \/ (selected = {"B"} /\ Relayed)
       /\ \A i \in DOMAIN calls : calls[i].provider # "C"
       /\ \A i \in DOMAIN responses : responses[i].from # "A"

(***************************************************************************)
(* C2: a missing credential is the failure of that candidate alone.  No    *)
(* call goes to a candidate without credential, and the request succeeds   *)
(* whenever some candidate holds a credential and every credentialed       *)
(* candidate answers 2xx (in particular when the primary does and an       *)
(* alternative lacks its credential).                                      *)
(***************************************************************************)
C2_MissingCredentialPerCandidate ==
    (Done /\ ReachedExecutor)
    => /\ \A i \in DOMAIN calls : Credentialed(calls[i].provider)
       /\ ( /\ \E k \in DOMAIN Candidates : Credentialed(Candidates[k])
            /\ \A k \in DOMAIN Candidates :
                  Credentialed(Candidates[k]) => upstream[Candidates[k]] = "ok" )
          => \E k \in DOMAIN Candidates :
                /\ Credentialed(Candidates[k])
                /\ selected = {Candidates[k]}
                /\ \A i \in DOMAIN responses : responses[i].status = 200

(***************************************************************************)
(* C3: per-attempt timeout.  Every outbound call that is issued carries    *)
(* the 15000 ms timeout, and a candidate that times out is passed over     *)
(* while candidates remain.                                                *)
(***************************************************************************)
C3_PerAttemptTimeout ==
    /\ \A i \in DOMAIN calls : calls[i].timeout = {FailoverTimeout}
    /\ ( /\ Done
         /\ ReachedExecutor
         /\ \A k \in DOMAIN Candidates : Credentialed(Candidates[k])
         /\ Len(Candidates) >= 2
         /\ upstream[Candidates[1]] = "timeout"
         /\ upstream[Candidates[2]] = "ok" )
       => selected = {Candidates[2]}

(***************************************************************************)
(* C4: all providers exhausted.  When every candidate of the request       *)
(* fails, the caller receives exactly one response, of 502/500 class, with *)
(* the generic 'all providers failed' message.                             *)
(***************************************************************************)
C4_AllProvidersExhausted ==
    ( /\ Done
      /\ ReachedExecutor
      /\ Candidates # <<>>
      /\ \A k \in DOMAIN Candidates :
            ~Credentialed(Candidates[k]) \/ upstream[Candidates[k]] # "ok" )
    => /\ Len(responses) = 1
       /\ responses[1].status \in {500, 502}
       /\ responses[1].error = "All providers failed to process the request"
       /\ frames = <<>>

(***************************************************************************)
(* C5: failover before relay.  Nothing is written to the caller while the  *)
(* executor is selecting a provider; whatever is relayed from an upstream  *)
(* is relayed after the executor has returned its provider and the one     *)
(* call has been issued; and once anything has been written, no outbound   *)
(* call is made and the executor is not entered again.                     *)
(***************************************************************************)
C5_FailoverBeforeRelay ==
    [][ /\ Written' => failover' # "running"
        /\ Relayed' => (failover' = "resolved" /\ Len(calls') = 1)
        /\ Written => (calls' = calls /\ failover' = failover) ]_vars

C5_Witness ==
    /\ Done
    /\ Len(frames) >= 2
    /\ failover = "resolved"
    /\ Len(calls) = 1

(***************************************************************************)
(* C6: validation rejection.  A payload without model, without messages,   *)
(* with no message, or with a temperature outside [0,2] gets a 400-class   *)
(* response listing every violation, and no outbound call.                 *)
(***************************************************************************)
ViolatesSchema(b) ==
    \/ b.model = {}
    \/ b.messages = {}
    \/ (b.messages # {} /\ Len(The(b.messages)) = 0)
    \/ (b.temperature # {} /\ (The(b.temperature) < 0 \/ The(b.temperature) > 2))

C6_ValidationRejection ==
    (pc \notin {"idle", "received"} /\ ViolatesSchema(body))
    => /\ Done
       /\ calls = <<>>
       /\ Len(responses) = 1
       /\ FourHundredClass(responses[1].status)
       /\ responses[1].issues = chatCompletionSchemaIssues(body)

(***************************************************************************)
(* C7: premium gating.  A request for a registered premium model from a    *)
(* caller that is absent or not premium is denied and makes no outbound    *)
(* call; a request from a premium caller, or for a model that is not       *)
(* premium, passes the access check and goes on to the image check.        *)
(***************************************************************************)
HasEntry == body.model # {} /\ \E i \in DOMAIN ModelsConfig : ModelsConfig[i].id = The(body.model)

PremiumModel == \E i \in DOMAIN ModelsConfig :
                    ModelsConfig[i].id = The(body.model) /\ ModelsConfig[i].premium

PremiumCaller == \E k \in apiKeyInfo : k.premium

PastAccessCheck == pc \notin {"idle", "received", "getModelInfo"}

C7_PremiumGating ==
    (SchemaValid /\ HasEntry /\ PastAccessCheck)
    => IF PremiumModel /\ ~PremiumCaller
       THEN /\ access = "deny"
            /\ Done
            /\ calls = <<>>
            /\ image = "none"
            /\ Len(responses) = 1
            /\ responses[1].status # 200
       ELSE /\ access = "allow"
            /\ pc = "modelSupportsImages" \/ image # "none"

C7_Witness ==
    /\ Done
    /\ access = "deny"
    /\ apiKeyInfo = {[premium |-> FALSE]}
    /\ calls = <<>>

(***************************************************************************)
(* C8: unroutable model.  A request whose model is absent from the model   *)
(* registry, or registered but mapped by no provider, is answered with a   *)
(* 400-class 'unsupported model' error and makes no outbound call.         *)
(***************************************************************************)
C8_UnroutableModel ==
    ( /\ Done
      /\ SchemaValid
      /\ \/ ~HasEntry
         \/ (access = "allow" /\ image = "allow" /\ Candidates = <<>>) )
    => /\ calls = <<>>
       /\ Len(responses) = 1
       /\ FourHundredClass(responses[1].status)
       /\ responses[1].error = "Unsupported model"

(***************************************************************************)
(* C9: image-capability policy.  The image check denies exactly when some  *)
(* message's content is an array holding an image_url part and the model   *)
(* is not image-capable (flag off and model not in the allow-list); the    *)
(* denial is answered with status 400 and no outbound call; with the flag  *)
(* on nothing is denied.                                                   *)
(***************************************************************************)
ImageBearing ==
    \E i \in DOMAIN The(body.messages) :
        LET content == The(body.messages)[i].content
        IN  content.kind = "array" /\ "image_url" \in {content.parts[k] : k \in DOMAIN content.parts}

ImageCapable == assumeAll \/ The(body.model) \in visionModels

C9_ImageCapabilityPolicy ==
    /\ (access = "allow" /\ pc # "modelSupportsImages") => image # "none"
    /\ image # "none" => (image = "deny" <=> (ImageBearing /\ ~ImageCapable))
    /\ image = "deny" => /\ Done
                         /\ calls = <<>>
                         /\ Len(responses) = 1
                         /\ responses[1].status = 400
    /\ assumeAll => image # "deny"

C9_Witness ==
    /\ Done
    /\ image = "deny"
    /\ responses[1].status = 400
    /\ ~assumeAll

(***************************************************************************)
(* C10: policy-denial status.  A premium-access denial reaches the caller  *)
(* as one 400/403-class response with a single reason, never as a 500.     *)
(***************************************************************************)
C10_PolicyDenialStatus ==
    (Done /\ access = "deny")
    => /\ Len(responses) = 1
       /\ FourHundredClass(responses[1].status)
       /\ responses[1].error # ""

(***************************************************************************)
(* C11: mutual exclusion of functions and tools.  A request that holds     *)
(* both `functions` and `tools` (empty arrays included), or both           *)
(* `function_call` and `tool_choice`, is rejected by the schema: the       *)
(* handler ends with one error response naming the violation, the executor *)
(* is never entered and no outbound call is made.                          *)
(***************************************************************************)
HoldsBoth(b) ==
    \/ (b.functions # {} /\ b.tools # {})
    \/ (b.function_call # {} /\ b.tool_choice # {})

C11_FunctionsToolsExclusive ==
    (pc \notin {"idle", "received"} /\ HoldsBoth(body))
    => /\ Done
       /\ ~ReachedExecutor
       /\ calls = <<>>
       /\ frames = <<>>
       /\ Len(responses) = 1
       /\ responses[1].status >= 400
       /\ (body.functions # {} /\ body.tools # {})
              => FunctionsAndTools \in responses[1].issues
       /\ (body.function_call # {} /\ body.tool_choice # {})
              => FunctionCallAndToolChoice \in responses[1].issues

C11_Witness ==
    /\ Done
    /\ body.functions = {<<>>}
    /\ body.tools = {<<ToolDefinition>>}
    /\ body.function_call = {}
    /\ Len(responses) = 1
    /\ responses[1].issues = {FunctionsAndTools}

(***************************************************************************)
(* C12: request builder.  The call built for provider P with credential k, *)
(* request r and stream flag s has method POST, P's endpoint as URL, the   *)
(* header Authorization 'Bearer k', P's own id of r.model as body.model,   *)
(* r's messages as body.messages, s as body.stream and responseType        *)
(* 'stream' if s, 'json' otherwise; building it leaves r as it was, with   *)
(* the caller-facing id in r.model.  r is the request the builder is       *)
(* given, which is the sanitized one.                                      *)
(***************************************************************************)
C12_RequestBuilder ==
    [][ (pc = "attempt" /\ pc' = "axios")
        => LET P == ProviderNamed(providers[1].provider)
               k == providers[1].apiKey
               r == The(sanitizedBody)
               s == IF r.stream = {TRUE} THEN TRUE ELSE FALSE
               built == calls'[Len(calls')]
           IN  /\ Len(calls') = Len(calls) + 1
               /\ built.method = "post"
               /\ built.url = P.endpoint
               /\ built.headers.Authorization = <<"Bearer", k>>
               /\ built.data.model = P.models[The(r.model)]
               /\ built.data.messages = The(r.messages)
               /\ built.data.stream = s
               /\ built.responseType = (IF s THEN "stream" ELSE "json")
               /\ sanitizedBody' = {r}
               /\ The(sanitizedBody').model \subseteq ModelIds ]_vars

C12_Witness ==
    /\ Len(calls) = 1
    /\ calls[1].provider = "C"
    /\ calls[1].url = "https://c.example/v1/chat/completions"
    /\ calls[1].headers.Authorization = <<"Bearer", "sk-c">>
    /\ body.model = {"gpt-4-vision-preview"}
    /\ calls[1].data.model = "c/gpt-4v"
    /\ calls[1].data.stream
    /\ calls[1].responseType = "stream"
    /\ Len(calls[1].data.messages) = 2

(***************************************************************************)
(* C13: stream reassembly is independent of chunking.  However the bytes   *)
(* sent so far were cut into chunks, the frames written are, in number,    *)
(* order and content, those of handing the same bytes over as one chunk    *)
(* (so a line without its newline has produced nothing); every frame       *)
(* written is a whole `data: ...` unit followed by a blank line.           *)
(***************************************************************************)
WholeFrame(frame) ==
    /\ Len(frame) >= 3
    /\ frame[1] = Prefix
    /\ frame[Len(frame) - 1] = LF
    /\ frame[Len(frame)] = LF
    /\ \A i \in 2..(Len(frame) - 2) : frame[i] # LF

C13_ChunkingIndependent ==
    pc = "streaming"
    => LET asOneChunk == processBuffer(toString(wire.sent), <<>>)
       IN  /\ frames = asOneChunk.written
           /\ \A i \in DOMAIN frames : WholeFrame(frames[i])

(***************************************************************************)
(* C14: single terminal [DONE].  When the upstream sends one chunk object  *)
(* and then `data: [DONE]` and ends, the caller receives exactly two       *)
(* frames, the second being [DONE]; in every response at most one [DONE]   *)
(* frame is written, the response is ended once it is written and it is    *)
(* the last frame.                                                         *)
(***************************************************************************)
CountOf(frame, written) == Cardinality({i \in DOMAIN written : written[i] = frame})

C14_SingleDone ==
    /\ ( /\ Done
         /\ ~wire.failed
         /\ wire.pending = <<>>
         /\ wire.sent = <<Prefix, ObjectHead, "a", ObjectTail, LF, Prefix, DoneText, LF>> )
       => frames = <<Frame(<<ObjectHead, "a", ObjectTail>>), DoneFrame>>
    /\ CountOf(DoneFrame, frames) <= 1
    /\ CountOf(DoneFrame, frames) = 1
          => (ended /\ frames[Len(frames)] = DoneFrame)

(***************************************************************************)
(* C16: disconnect safety.  Once the caller's connection has closed, no    *)
(* frame (data, [DONE] or error) is written to the response any more,      *)
(* whatever the upstream goes on to send.                                  *)
(***************************************************************************)
C16_NoWriteAfterClose ==
    [][ closed => frames' = frames ]_vars

(***************************************************************************)
(* C17: mid-stream upstream failure.  When the upstream stream has errored *)
(* after something was relayed, the handler is done, the response is ended *)
(* with the in-band error frame as its last frame, written once, no [DONE] *)
(* frame follows it, no JSON error body is sent and no call beyond the one *)
(* to the selected provider has been made.                                 *)
(***************************************************************************)
C17_MidStreamFailure ==
    (wire.failed /\ \E i \in DOMAIN frames : frames[i] # ErrorFrame)
    => /\ Done
       /\ ended
       /\ frames[Len(frames)] = ErrorFrame
       /\ CountOf(ErrorFrame, frames) = 1
       /\ responses = <<>>
       /\ Len(calls) = 1
       /\ calls[1].provider \in selected

C17_Witness ==
    /\ Done
    /\ wire.failed
    /\ Len(frames) = 3
    /\ frames[2] = DoneFrame
    /\ frames[3] = ErrorFrame
    /\ Len(providers) = 3
    /\ Len(calls) = 1

(***************************************************************************)
(* C15: function-call delta normalization.  For a chunk whose first choice *)
(* carries delta.function_call, the frame forwarded has delta.content null *)
(* and a delta.function_call with exactly one of the keys name, arguments  *)
(* when the upstream fragment held at least one of them; a fragment with   *)
(* only name, or only arguments, is forwarded as it came; the forwarded    *)
(* function_call is empty only when the upstream fragment held neither.    *)
(***************************************************************************)
C15_FunctionCallDelta ==
    ( /\ pc = "streaming"
      /\ data # {}
      /\ The(data).choices # <<>>
      /\ The(data).choices[1].delta.function_call # {} )
    => /\ parsed # {}
       /\ frames = <<Frame(<<The(parsed)>>)>>
       /\ LET sent      == The(The(data).choices[1].delta.function_call)
              forwarded == The(parsed).choices[1].delta
              fragment  == The(forwarded.function_call)
          IN  /\ forwarded.content = {Null}
              /\ (sent.name # {} \/ sent.arguments # {})
                     => ((fragment.name = {}) # (fragment.arguments = {}))
              /\ (sent.name # {} /\ sent.arguments = {}) => fragment = sent
              /\ (sent.name = {} /\ sent.arguments # {}) => fragment = sent
              /\ (fragment.name = {} /\ fragment.arguments = {})
                     => (sent.name = {} /\ sent.arguments = {})

(***************************************************************************)
(* C18: non-streaming relay.  For a request that does not stream and whose *)
(* selected provider answers 2xx, the caller receives one response with    *)
(* the upstream's status code and the upstream's JSON body, unchanged but  *)
(* for choices[0].message.content, which is null when the message carries  *)
(* a function call or tool calls and untouched when it carries neither.    *)
(***************************************************************************)
CarriesCall(message) == message.function_call # {} \/ message.tool_calls # {}

C18_NonStreamingRelay ==
    ( /\ Done
      /\ response # {}
      /\ The(response).status \in 200..299
      /\ calls[1].responseType = "json" )
    => /\ Len(responses) = 1
       /\ frames = <<>>
       /\ responses[1].status = The(response).status
       /\ LET sent      == The(response).data.choices[1].message
              delivered == The(responses[1].data).choices[1].message
          IN  /\ delivered.function_call = sent.function_call
              /\ delivered.tool_calls = sent.tool_calls
              /\ delivered.content = IF CarriesCall(sent) THEN {Null} ELSE sent.content

(***************************************************************************)
(* C19: no upstream internals in caller-visible errors.  The error body    *)
(* the caller gets after a failed upstream call holds neither the          *)
(* provider's error payload nor the cause of the failed attempt, so that   *)
(* it is the same whatever payload the provider sent.                      *)
(***************************************************************************)
AttemptCauses == {ErrorMessage(outcome) : outcome \in Outcomes \ {"ok"}}

C19_NoUpstreamInternals ==
    \A i \in DOMAIN responses :
        responses[i].status >= 400
        => /\ responses[i].details \notin ErrorPayloads
           /\ responses[i].message \notin AttemptCauses
           /\ responses[i].error \notin ErrorPayloads \cup AttemptCauses

(***************************************************************************)
(* C20: orchestrator termination.  Every request that enters the           *)
(* orchestrator ends, Completed or Failed and never both, provided the     *)
(* upstream call returns or fails (a provider that stays silent for ever   *)
(* is set aside); an ended request takes no further step; and a request    *)
(* that ended Failed with nothing relayed from an upstream has been sent a *)
(* caller-visible error: an error status with a JSON body, or the in-band  *)
(* error frame.                                                            *)
(***************************************************************************)
\* the one outbound call is to a provider that never answers
NeverReturns ==
    /\ pc = "axios"
    /\ upstream[calls[Len(calls)].provider] = "timeout"

Completed ==
    /\ Done
    /\ \/ (Len(responses) = 1 /\ responses[1].status \in 200..299)
       \/ (responses = <<>> /\ ended /\ ~wire.failed)

Failed == Done /\ ~Completed

ErrorSent ==
    \/ (Len(responses) = 1 /\ responses[1].status >= 400 /\ responses[1].error # "")
    \/ (responses = <<>> /\ frames # <<>> /\ frames[Len(frames)] = ErrorFrame)

C20_Termination ==
    /\ (pc = "received") ~> (Done \/ NeverReturns)
    /\ [][~Done]_vars
    /\ [](Done => (ended /\ Len(responses) <= 1))
    /\ []((Failed /\ \A i \in DOMAIN frames : frames[i] = ErrorFrame) => ErrorSent)

C20_Witness ==
    /\ Failed
    /\ failover = "failed"
    /\ frames = <<>>
    /\ ErrorSent

(***************************************************************************)
(* C25: frame skipping is limited to unparsable frames.  A data line whose *)
(* payload is valid JSON, the payloads with an empty choices array         *)
(* included, is forwarded to the caller exactly once.                      *)
(***************************************************************************)
C25_OnlyUnparsableSkipped ==
    (pc = "streaming" /\ data # {}) => Len(frames) = 1

(***************************************************************************)
(* C30: no function-call payload is lost in streaming.  The function name  *)
(* and the arguments text forwarded for a chunk equal the name and the     *)
(* arguments text the upstream sent in it, a fragment that carries both a  *)
(* name and non-empty arguments included.  A missing key counts as the     *)
(* empty text, which is what it adds to a concatenation.                   *)
(***************************************************************************)
TextOf(str) == IF str = {} THEN "" ELSE The(str)

NameSent(delta) ==
    IF delta.function_call = {} THEN ""
    ELSE TextOf(The(delta.function_call).name)

ArgumentsSent(delta) ==
    IF delta.function_call = {} THEN ""
    ELSE TextOf(The(delta.function_call).arguments)

C30_NoCallPayloadLost ==
    ( /\ pc = "streaming"
      /\ data # {}
      /\ The(data).choices # <<>> )
    => /\ parsed # {}
       /\ NameSent(The(parsed).choices[1].delta)
              = NameSent(The(data).choices[1].delta)
       /\ ArgumentsSent(The(parsed).choices[1].delta)
              = ArgumentsSent(The(data).choices[1].delta)

(***************************************************************************)
(* C26: group exclusivity of the function and tool fields.  A request that *)
(* carries a field of {functions, function_call} together with a field of  *)
(* {tools, tool_choice} is rejected by validation: the executor is never   *)
(* entered for it and no outbound call is made.                            *)
(***************************************************************************)
CrossesGroups(b) ==
    /\ (b.functions # {} \/ b.function_call # {})
    /\ (b.tools # {} \/ b.tool_choice # {})

C26_GroupExclusivity ==
    (pc \notin {"idle", "received"} /\ CrossesGroups(body))
    => /\ ~ReachedExecutor
       /\ calls = <<>>

(***************************************************************************)
(* C24: cancellation on disconnect.  Once the caller's connection has      *)
(* closed during a streaming relay, the relay eventually stops: the        *)
(* handler returns, and with it the reading of the upstream and the        *)
(* processor's buffer end, whether or not the upstream ever finishes.      *)
(***************************************************************************)
C24_CancellationOnDisconnect ==
    closed ~> (pc = "done")

(***************************************************************************)
(* C29: at most one response head per request.  On every path the status   *)
(* code and headers are written at most once, no status code is written    *)
(* once a body byte (a frame) has been sent, and once the response has     *)
(* ended nothing more is written to it and it stays ended.                 *)
(***************************************************************************)
C29_OneResponseHead ==
    [][ /\ Len(responses') <= 1
        /\ frames # <<>> => responses' = responses
        /\ headersSent => (headersSent' /\ responses' = responses)
        /\ ended => (ended' /\ responses' = responses /\ frames' = frames) ]_vars

C29_Witness ==
    /\ Done
    /\ ended
    /\ wire.failed
    /\ Len(frames) = 3
    /\ frames[1] = frames[2]
    /\ frames[3] = ErrorFrame
    /\ responses = <<>>

(***************************************************************************)
(* C22: candidate list construction.  Once the executor has built its      *)
(* list, the list is the primary provider (the first in the configuration  *)
(* that maps the model) followed by every other provider that maps the     *)
(* model, in configuration order, each with its credential; no provider    *)
(* appears twice, none that does not serve the model appears, and no       *)
(* provider is called twice within the request.                            *)
(***************************************************************************)
ListBuilt == pc = "attempt" \/ failover = "resolved"

PositionOf(name) ==
    CHOOSE i \in DOMAIN ProvidersConfig : ProvidersConfig[i].name = name

C22_CandidateList ==
    ListBuilt
    => LET model == The(body.model)
           name(k) == providers[k].provider
       IN  /\ providers # <<>>
           /\ \A p \in Serving(model) : PositionOf(name(1)) <= PositionOf(p)
           /\ \A k \in DOMAIN providers :
                 /\ name(k) \in Serving(model)
                 /\ providers[k].apiKey = EnvValue(name(k))
           /\ \A p \in Serving(model) : \E k \in DOMAIN providers : name(k) = p
           /\ \A j, k \in DOMAIN providers : j < k => name(j) # name(k)
           /\ \A j, k \in DOMAIN providers :
                 (1 < j /\ j < k) => PositionOf(name(j)) < PositionOf(name(k))
           /\ \A j, k \in DOMAIN calls :
                 j < k => calls[j].provider # calls[k].provider

C22_Witness ==
    /\ pc = "axios"
    /\ body.model = {"claude-3-opus"}
    /\ Len(providers) = 2
    /\ providers[1].provider = "B"
    /\ providers[2].provider = "C"
    /\ Len(calls) = 1
    /\ calls[1].provider = "B"

(***************************************************************************)
(* C23: configuration is a per-request snapshot.  Within one request all   *)
(* reads of the model table observe one version of it and all reads of the *)
(* provider table observe one version of it, whenever the files are        *)
(* rewritten.                                                              *)
(***************************************************************************)
C23_ConfigSnapshot ==
    \A i, j \in DOMAIN observed :
        observed[i].file = observed[j].file
            => observed[i].version = observed[j].version

(***************************************************************************)
(* C21: idempotent sanitization.  Sanitizing the sanitized request gives   *)
(* the sanitized request back: the same keys with the same values.         *)
(***************************************************************************)
C21_SanitizeIdempotent ==
    sanitizedBody # {}
    => sanitizeChatCompletionRequest(The(sanitizedBody)) = The(sanitizedBody)

(***************************************************************************)
(* C27: end-to-end pass-through of optional parameters.  In every outbound *)
(* call each of temperature, top_p, n, max_tokens, presence_penalty,       *)
(* frequency_penalty and stop has in the outbound body the value the       *)
(* caller sent, and is absent from it when the caller sent none.           *)
(***************************************************************************)
PassThrough ==
    {"temperature", "top_p", "n", "max_tokens", "presence_penalty",
     "frequency_penalty", "stop"}

C27_ParameterPassThrough ==
    \A i \in DOMAIN calls :
        \A field \in PassThrough : calls[i].data.optional[field] = body[field]

(***************************************************************************)
(* C28: the sanitizer preserves structure.  The sanitized request has as   *)
(* many messages, functions and tools as the caller's, every object in it  *)
(* has the keys it had, every field that is not a string is unchanged, and *)
(* a null content is still null.                                           *)
(***************************************************************************)
\* the keys of an object, of which those in `optional` may be absent
KeysOf(object, optional) ==
    (DOMAIN object \ optional)
        \cup {k \in DOMAIN object \cap optional : object[k] # {}}

Shape(list, optional) == [k \in DOMAIN list |-> KeysOf(list[k], optional)]

SameShape(before, after, optional) ==
    /\ (before = {}) = (after = {})
    /\ before # {} => Shape(The(before), optional) = Shape(The(after), optional)

C28_SanitizerPreservesStructure ==
    sanitizedBody # {}
    => LET before == body
           after  == The(sanitizedBody)
       IN  /\ KeysOf(after, DOMAIN after) = KeysOf(before, DOMAIN before)
           /\ SameShape(before.messages, after.messages, {"name", "function_call"})
           /\ SameShape(before.functions, after.functions, {"description"})
           /\ SameShape(before.tools, after.tools, {})
           /\ before.tools # {}
                 => \A k \in DOMAIN The(before.tools) :
                       KeysOf(The(after.tools)[k].function, {"description"})
                           = KeysOf(The(before.tools)[k].function, {"description"})
           /\ \A k \in DOMAIN The(before.messages) :
                 LET was == The(before.messages)[k].content
                     is  == The(after.messages)[k].content
                 IN  /\ is.kind = was.kind
                     /\ is.parts = was.parts
           /\ \A field \in {"temperature", "top_p", "n", "max_tokens",
                            "presence_penalty", "frequency_penalty", "stream"} :
                 after[field] = before[field]

====
